---- MODULE Spec2Model ----
(***************************************************************************)
(* Model of web/static/js/cell.js: the Builder singleton (registry and     *)
(* reconciler) and the Cell base class.                                    *)
(*                                                                         *)
(* The host is single threaded and every Builder method runs to completion *)
(* before the next one starts, so each method call is one action.  The     *)
(* document is the list of elements matched by                             *)
(* document.querySelectorAll('[data-cell]'), in document order; the page   *)
(* changes it between calls.  Objects built by `new` live in `heap`, and   *)
(* an object's identity is its index in the heap.                          *)
(***************************************************************************)
EXTENDS Integers, Sequences, FiniteSets, TLC

\* ---------------------------------------------------------------- bounds
\* Number of distinct DOM nodes the page can attach and detach.
MaxNodes == 2

\* Number of objects ever built by `new` in one behaviour.  A pass builds one
\* object per marker element, so this budget is used up by a pass over one
\* element followed by a pass over two; the pages that run two passes over
\* the same two elements have the budget MaxOrderCells.
MaxCells == 3

\* Number of nested calls of Builder.reload, each with the calls it makes,
\* that the engine's call stack holds; the engine throws a RangeError on
\* entering the next one or inside it.
MaxDepth == 2

\* Number of destroy invocations on one object after which the application
\* stops calling destroy on it and, where hooks throw, stops starting passes.
MaxDestroys == 2

\* Number of objects the application builds with `new` directly.
MaxDirectCells == 1

\* Number of objects ever built in one behaviour of an application that
\* reorders its cells.
MaxOrderCells == 4

\* ------------------------------------------------------- values and domains
Nodes == 1..MaxNodes

\* cell.element after destroy (cell.js:140).
Null == 0

\* An argument that was not passed (cell.destroy() at cell.js:62).
Undefined == -1

\* Result of a lookup that found nothing: no object of the heap.
UndefinedCell == 0

\* An absent property of availableCells.
UndefinedCtor == "undefined"

\* The classes of the application.  Foo1 and Foo2 are two different classes
\* whose `name` is "Foo".  Example is the class of part_000.  Fragile and
\* Nested are classes whose onDestroy hook throws, respectively calls
\* Builder.reload().
Constructors == {"Foo1", "Foo2", "Bar1", "Example", "Fragile", "Nested"}

\* cell.name of a class (cell.js:25) and this.constructor.name (cell.js:123).
CtorName(c) ==
  CASE c = "Bar1" -> "Bar"
    [] c \in {"Example", "Fragile", "Nested"} -> c
    [] OTHER -> "Foo"

\* Where the engine runs out of stack in the call of Builder.reload that the
\* stack has no room for: on entering it, in its findAndBuild, in its
\* destroyOrphans before a destroy, or when destroy calls the onDestroy hook.
\* Which one depends on the engine and the size of its stack.
Landings == {"reload", "findAndBuild", "destroyOrphans", "onDestroy"}

\* The classes that define the optional hooks (cell.js:142, cell.js:154).
\* Example defines neither (part_000).
DefinesOnReload(c) == c = "Foo1"
DefinesOnDestroy(c) == c \in {"Foo1", "Fragile", "Nested"}

\* Values of the data-cell attribute, the property names looked up in
\* availableCells.  No class is named "Baz".  availableCells is an Array
\* (cell.js:18): "constructor" and "map" are properties it inherits from
\* Array.prototype.
CellNames == {"Foo", "Bar", "Baz", "Example", "Fragile", "Nested",
              "constructor", "map"}

\* The built-in functions an Array inherits under those two names: Array
\* itself, which `new` can call, and Array.prototype.map, which it cannot.
ArrayFunction == "Array"
ArrayMap == "Array.prototype.map"

\* Array.prototype[name].
Inherited(name) ==
  CASE name = "constructor" -> ArrayFunction
    [] name = "map" -> ArrayMap
    [] OTHER -> UndefinedCtor

\* this.availableCells[cellName], cell.js:27 and cell.js:81: the own property
\* if a class was stored under the name, else the inherited one.
Lookup(registry, cellName) ==
  IF registry[cellName] # UndefinedCtor THEN registry[cellName]
  ELSE Inherited(cellName)

\* The classes the application registers and the data-cell values its pages
\* carry in the behaviours of Spec.
AppConstructors == {"Foo1", "Foo2"}
PageCellNames == {"Foo", "Baz"}

\* element.dataset.cellParams as JSON.parse sees it.  An absent attribute
\* reads as undefined, which JSON.parse converts to the text "undefined".
AbsentParams == "undefined"
ValidParams == "{\"n\":1}"
MalformedParams == "{n"
ParamTexts == {AbsentParams, ValidParams, MalformedParams}

\* Child fragments handed to className, query and queryAll; "" is falsy.
Fragments == {"", "name"}

\* No error was thrown.
NoError == [name |-> "", message |-> ""]

\* The value of a call that returns no array: reload, initialize and register
\* return undefined, and a call that throws returns nothing.
NoArray == [defined |-> FALSE, cells |-> <<>>]

\* No method of a cell was called directly.
NoCellCall == [method |-> "", cell |-> 0, arg |-> -1, returned |-> -1,
               root |-> 0, selector |-> "", value |-> ""]

\* JSON.parse (cell.js:124) on the texts above: the parsed value, or the
\* SyntaxError it throws.  The engine's message is modelled as the text.
JSONParse(text) ==
  IF text = ValidParams
    THEN [thrown |-> NoError, value |-> [n |-> 1]]
    ELSE [thrown |-> [name |-> "SyntaxError", message |-> text],
          value |-> [n |-> 0]]

VARIABLES
  availableCells,  \* Builder.availableCells: type name -> registered class
  activeCells,     \* Builder.activeCells: sequence of heap indices
  heap,            \* every object built so far: [element, name, params, ctor]
  document,        \* marker elements in document order: [node, cell, cellParams]
  lastCall,        \* the most recent step: [op, ctor]
  thrown,          \* the error the most recent call threw, or NoError
  log,             \* constructor/reload/destroy invocations of the most recent call
  passDocument,    \* nodes of the document at the last successful pass
  destroyCalls,    \* per object: how many times destroy was invoked on it
  staleReloads,    \* objects that had reload invoked after destroy
  nesting,         \* deepest nesting of Builder.reload calls in the most recent call
  cellCall,        \* the call of a Cell method by the application, if the most recent step is one
  builderReturn    \* the array the most recent call of a Builder method returned

vars == <<availableCells, activeCells, heap, document, lastCall, thrown, log,
          passDocument, destroyCalls, staleReloads, nesting, cellCall,
          builderReturn>>

\* The Builder, the objects it reaches and the page, as one value the methods
\* transform.  depth is the number of Builder.reload calls on the call stack.
Builder == [activeCells |-> activeCells, availableCells |-> availableCells,
            heap |-> heap, log |-> <<>>, thrown |-> NoError,
            document |-> document, depth |-> 0, nesting |-> 0,
            landing |-> "reload"]

\* The engine's stack runs out at this point of the call b is in.
Lands(b, point) ==
  /\ b.landing = point
  /\ b.depth >= (IF point = "reload" THEN MaxDepth ELSE MaxDepth + 1)

\* The call stack is exhausted: the engine throws a RangeError in the call
\* that finds no room for its frame.
StackOverflow(b) ==
  [b EXCEPT !.thrown = [name |-> "RangeError",
                        message |-> "Maximum call stack size exceeded"]]

RECURSIVE reload(_, _)

\* ------------------------------------------------------------ Cell class
\* Cell.constructor without `this.element = element`.
CellConstructorNoElement(b, ctor, el) ==
  LET parsed == JSONParse(el.cellParams)
      this == [element |-> Null, name |-> CtorName(ctor),
               params |-> parsed.value, ctor |-> ctor]
      id == Len(b.heap) + 1
  IN IF parsed.thrown # NoError
       THEN [b |-> [b EXCEPT !.thrown = parsed.thrown], cell |-> UndefinedCell]
       ELSE [b |-> [b EXCEPT !.heap = Append(@, this),
                             !.log = Append(@, [op |-> "construct", cell |-> id, arg |-> el.node])],
             cell |-> id]

\* new (cellConstructor)(element): Cell.constructor, cell.js:121-125.  The
\* object exists for the caller only when the constructor returns.
CellConstructor(b, ctor, el) ==
  LET parsed == JSONParse(el.cellParams)
      this == [element |-> el.node, name |-> CtorName(ctor),
               params |-> parsed.value, ctor |-> ctor]
      id == Len(b.heap) + 1
  IN IF parsed.thrown # NoError
       THEN [b |-> [b EXCEPT !.thrown = parsed.thrown], cell |-> UndefinedCell]
       ELSE [b |-> [b EXCEPT !.heap = Append(@, this),
                             !.log = Append(@, [op |-> "construct", cell |-> id, arg |-> el.node])],
             cell |-> id]

\* Cell.className(child), cell.js:159-167.
className(this, child) ==
  IF child = "" THEN this.name
  ELSE "." \o this.name \o "__" \o child

\* element[method](selector) for querySelector and querySelectorAll: reading
\* the method of a null element throws a TypeError, and the DOM throws a
\* SyntaxError for the empty selector, which is not a valid selector.
SelectorError(element, method, selector) ==
  IF element = Null
    THEN [name |-> "TypeError",
          message |-> "Cannot read properties of null (reading '" \o method \o "')"]
  ELSE IF selector = ""
    THEN [name |-> "SyntaxError", message |-> "The provided selector is empty."]
  ELSE NoError

\* Cell.query(selector), cell.js:177-181: the element whose subtree is
\* searched and the selector handed to element.querySelector, or the error
\* the call throws.
query(this, selector) ==
  [root |-> this.element, selector |-> selector,
   thrown |-> SelectorError(this.element, "querySelector", selector)]

\* Cell.queryAll(selector), cell.js:191-195, likewise for querySelectorAll.
queryAll(this, selector) ==
  [root |-> this.element, selector |-> selector,
   thrown |-> SelectorError(this.element, "querySelectorAll", selector)]

\* element.querySelector(selector) finds a descendant: the element's
\* descendants are given by their class names.
Matches(el, selector) == \E c \in el.children : selector = "." \o c

\* The constructor of Example, part_000:4-10, after super(...args) built
\* `this` as object r.cell: the assignment to innerHTML throws when query
\* returns null, and then `new` yields no object.
ExampleConstructor(b, r, el) ==
  LET this == r.b.heap[r.cell]
      lookup == query(this, className(this, "name"))
  IN IF lookup.thrown # NoError
       THEN [b |-> [b EXCEPT !.thrown = lookup.thrown], cell |-> UndefinedCell]
     ELSE IF Matches(el, lookup.selector) THEN r
     ELSE [b |-> [b EXCEPT !.thrown = [name |-> "TypeError",
                     message |-> "Cannot set properties of null (setting 'innerHTML')"]],
           cell |-> UndefinedCell]

\* new Array(element): an array that holds the element.  It has no element,
\* name or params property; its fields here stand for undefined.
ArrayConstructor(b, el) ==
  LET this == [element |-> Undefined, name |-> "", params |-> [n |-> 0],
               ctor |-> ArrayFunction]
      id == Len(b.heap) + 1
  IN [b |-> [b EXCEPT !.heap = Append(@, this),
                      !.log = Append(@, [op |-> "construct", cell |-> id, arg |-> el.node])],
      cell |-> id]

\* new (cellConstructor)(element), cell.js:94, for the classes above and the
\* two inherited functions.
New(b, ctor, el) ==
  IF ctor = ArrayFunction THEN ArrayConstructor(b, el)
  ELSE IF ctor = ArrayMap
    THEN [b |-> [b EXCEPT !.thrown = [name |-> "TypeError",
                    message |-> "cellConstructor is not a constructor"]],
          cell |-> UndefinedCell]
  ELSE LET r == CellConstructor(b, ctor, el)
       IN IF r.b.thrown # NoError \/ ctor # "Example" THEN r
          ELSE ExampleConstructor(b, r, el)

\* this.onDestroy(element), cell.js:142, for the classes that define it.
\* The hook of Fragile throws, the hook of Nested calls Builder.reload(),
\* the others return.  `element` in the event is this.element as the hook
\* sees it.
onDestroy(b, id, element) ==
  LET ctor == b.heap[id].ctor
      entered == [b EXCEPT !.log = Append(@, [op |-> "onDestroy", cell |-> id,
                                               arg |-> element,
                                               element |-> b.heap[id].element])]
  IN IF ctor = "Fragile"
       THEN [entered EXCEPT !.thrown = [name |-> "Error", message |-> "onDestroy failed"]]
     ELSE IF ctor = "Nested" THEN reload(entered, entered.document)
     ELSE entered

\* Cell.destroy with the hook invoked before the element is released.
CellDestroyHookFirst(b, id, element) ==
  LET called == [b EXCEPT !.log = Append(@, [op |-> "destroy", cell |-> id,
                                            arg |-> element,
                                            was |-> b.heap[id].element])]
      hooked == IF DefinesOnDestroy(b.heap[id].ctor)
                  THEN onDestroy(called, id, element) ELSE called
  IN [b |-> [hooked EXCEPT !.heap[id].element = Null],
      returned |-> IF hooked.thrown # NoError THEN Undefined ELSE element]

\* Cell.destroy(element), cell.js:139-145.  `was` in the event is
\* this.element when destroy was entered.  A throw of the hook, or of the
\* engine when it has no room for the hook's frame, leaves the method before
\* `return element`: the call then yields no value.
CellDestroy(b, id, element) ==
  LET released == [b EXCEPT !.heap[id].element = Null,
                            !.log = Append(@, [op |-> "destroy", cell |-> id,
                                               arg |-> element,
                                               was |-> b.heap[id].element])]
      hooked == IF ~DefinesOnDestroy(b.heap[id].ctor) THEN released
                ELSE IF Lands(released, "onDestroy") THEN StackOverflow(released)
                ELSE onDestroy(released, id, element)
  IN [b |-> hooked,
      returned |-> IF hooked.thrown # NoError THEN Undefined ELSE element]

\* this.onReload(element), cell.js:154, for the classes that define it.
onReload(b, id, element) ==
  [b EXCEPT !.log = Append(@, [op |-> "onReload", cell |-> id, arg |-> element,
                               element |-> b.heap[id].element])]

\* Cell.reload that returns this.element instead of its argument.
CellReloadOwnElement(b, id, element) ==
  LET called == [b EXCEPT !.log = Append(@, [op |-> "reload", cell |-> id,
                                            arg |-> element])]
  IN [b |-> IF DefinesOnReload(b.heap[id].ctor)
              THEN onReload(called, id, b.heap[id].element) ELSE called,
      returned |-> b.heap[id].element]

\* Cell.reload(element), cell.js:153-157.
CellReload(b, id, element) ==
  LET called == [b EXCEPT !.log = Append(@, [op |-> "reload", cell |-> id,
                                            arg |-> element])]
  IN [b |-> IF DefinesOnReload(b.heap[id].ctor)
              THEN onReload(called, id, element) ELSE called,
      returned |-> element]

\* ------------------------------------------------------------ Builder
\* Array.prototype.find with the predicate cell.element === element.
ArrayFind(cells, h, element) ==
  LET hits == {i \in 1..Len(cells) : h[cells[i]].element = element}
  IN IF hits = {} THEN UndefinedCell
     ELSE cells[CHOOSE i \in hits : \A j \in hits : i <= j]

\* Builder.findByElement, cell.js:105-107.  The body is an expression
\* statement: the result of find is dropped and the method returns undefined.
findByElement(element, cells, h) ==
  LET result == ArrayFind(cells, h, element)
  IN UndefinedCell

\* Builder.register without the early return: the last registration wins.
registerOverwrite(b, cell) ==
  [b EXCEPT !.availableCells[CtorName(cell)] = cell]

\* Builder.register, cell.js:24-32.
register(b, cell) ==
  LET cellName == CtorName(cell)
  IN IF Lookup(b.availableCells, cellName) # UndefinedCtor
       THEN b
       ELSE [b EXCEPT !.availableCells[cellName] = cell]

\* The callback of findAndBuild with the parse error of the constructor
\* swallowed: an element whose configuration does not parse is given an
\* object with default params.
findAndBuildElementLenient(b, el) ==
  LET cellName == el.cell
      cellConstructor == Lookup(b.availableCells, cellName)
  IN IF cellConstructor = UndefinedCtor
       THEN [b |-> [b EXCEPT !.thrown = [name |-> "Error",
                       message |-> "Cell with name " \o cellName \o " not found"]],
             cell |-> UndefinedCell]
     ELSE New(b, cellConstructor, [el EXCEPT !.cellParams = ValidParams])

\* The callback of findAndBuild with the cell of the element looked up in
\* activeCells and carried forward after its reload.
findAndBuildElementReuse(b, el) ==
  LET cellName == el.cell
      cellConstructor == Lookup(b.availableCells, cellName)
      foundCell == ArrayFind(b.activeCells, b.heap, el.node)
  IN IF cellConstructor = UndefinedCtor
       THEN [b |-> [b EXCEPT !.thrown = [name |-> "Error",
                       message |-> "Cell with name " \o cellName \o " not found"]],
             cell |-> UndefinedCell]
     ELSE IF foundCell # UndefinedCell
       THEN [b |-> CellReload(b, foundCell, el.node).b, cell |-> foundCell]
     ELSE New(b, cellConstructor, el)

\* The callback of findAndBuild, cell.js:79-95, for one element.
findAndBuildElement(b, el) ==
  LET cellName == el.cell
      cellConstructor == Lookup(b.availableCells, cellName)
      foundCell == findByElement(el.node, b.activeCells, b.heap)
  IN IF cellConstructor = UndefinedCtor
       THEN [b |-> [b EXCEPT !.thrown = [name |-> "Error",
                       message |-> "Cell with name " \o cellName \o " not found"]],
             cell |-> UndefinedCell]
     ELSE IF foundCell # UndefinedCell
       THEN [b |-> [CellReload(b, foundCell, el.node).b EXCEPT !.thrown =
                       [name |-> "ReferenceError", message |-> "cell is not defined"]],
             cell |-> UndefinedCell]
     ELSE New(b, cellConstructor, el)

\* [].map.call with each result put in front of the earlier ones.
RECURSIVE findAndBuildFromReversed(_, _, _, _)
findAndBuildFromReversed(b, elements, i, found) ==
  IF i > Len(elements) THEN [b |-> b, found |-> found]
  ELSE LET r == findAndBuildElement(b, elements[i])
       IN IF r.b.thrown # NoError THEN [b |-> r.b, found |-> <<>>]
          ELSE findAndBuildFromReversed(r.b, elements, i + 1, <<r.cell>> \o found)

\* [].map.call(elements, callback), cell.js:77-95: elements i..Len, in order,
\* stopping at the first throw.
RECURSIVE findAndBuildFrom(_, _, _, _)
findAndBuildFrom(b, elements, i, found) ==
  IF i > Len(elements) THEN [b |-> b, found |-> found]
  ELSE LET r == findAndBuildElement(b, elements[i])
       IN IF r.b.thrown # NoError THEN [b |-> r.b, found |-> <<>>]
          ELSE findAndBuildFrom(r.b, elements, i + 1, Append(found, r.cell))

\* Builder.findAndBuild, cell.js:76-96.
findAndBuild(b, elements) == findAndBuildFrom(b, elements, 1, <<>>)

\* Builder.destroyOrphans, cell.js:59-69: the filter callback on cells[i..],
\* where cells is the array this.activeCells referred to when filter was
\* called; a throw of destroy ends the loop.  kept holds the cells for which
\* the callback returned true: the filtered array the method returns.
\* cell.destroy() at cell.js:62: an array has no destroy method.
destroyCall(b, cell) ==
  IF b.heap[cell].ctor = ArrayFunction
    THEN [b EXCEPT !.thrown = [name |-> "TypeError",
                               message |-> "cell.destroy is not a function"]]
    ELSE CellDestroy(b, cell, Undefined).b

RECURSIVE destroyOrphansFrom(_, _, _, _, _)
destroyOrphansFrom(b, cells, found, i, kept) ==
  IF b.thrown # NoError THEN [b |-> b, kept |-> <<>>]
  ELSE IF i > Len(cells) THEN [b |-> b, kept |-> kept]
  ELSE LET cell == cells[i]
       IN IF findByElement(b.heap[cell].element, found, b.heap) = UndefinedCell
            THEN destroyOrphansFrom(destroyCall(b, cell), cells, found, i + 1, kept)
            ELSE destroyOrphansFrom(b, cells, found, i + 1, Append(kept, cell))

destroyOrphans(b, found) == destroyOrphansFrom(b, b.activeCells, found, 1, <<>>)

\* Entering and leaving a call of Builder.reload.
Enter(b) == [b EXCEPT !.depth = @ + 1,
                      !.nesting = IF b.depth + 1 > @ THEN b.depth + 1 ELSE @]
Leave(b) == [b EXCEPT !.depth = @ - 1]

\* Builder.reload with found pushed onto activeCells instead of replacing it.
reloadPush(b, elements) ==
  IF Lands(b, "reload") THEN StackOverflow(b)
  ELSE IF Lands(Enter(b), "findAndBuild") THEN Leave(StackOverflow(Enter(b)))
  ELSE LET r == findAndBuild(Enter(b), elements)
           d == destroyOrphans(r.b, r.found).b
       IN IF r.b.thrown # NoError THEN Leave(r.b)
          ELSE IF Lands(r.b, "destroyOrphans") THEN Leave(StackOverflow(r.b))
          ELSE IF d.thrown # NoError THEN Leave(d)
          ELSE Leave([d EXCEPT !.activeCells = @ \o r.found])

\* Builder.reload with the assignment of activeCells in a finally block.
reloadFinally(b, elements) ==
  IF Lands(b, "reload") THEN StackOverflow(b)
  ELSE IF Lands(Enter(b), "findAndBuild") THEN Leave(StackOverflow(Enter(b)))
  ELSE LET r == findAndBuild(Enter(b), elements)
           d == destroyOrphans(r.b, r.found).b
       IN IF r.b.thrown # NoError THEN Leave(r.b)
          ELSE IF Lands(r.b, "destroyOrphans") THEN Leave(StackOverflow(r.b))
          ELSE Leave([d EXCEPT !.activeCells = r.found])

\* Builder.reload, cell.js:45-51.  A throw of findAndBuild or of
\* destroyOrphans leaves the method before the assignment.  The stack holds
\* MaxDepth calls of reload together with the calls they make; the engine
\* throws at one of the Landings of the next call of reload.
reload(b, elements) ==
  IF Lands(b, "reload") THEN StackOverflow(b)
  ELSE IF Lands(Enter(b), "findAndBuild") THEN Leave(StackOverflow(Enter(b)))
  ELSE LET r == findAndBuild(Enter(b), elements)
           d == destroyOrphans(r.b, r.found).b
       IN IF r.b.thrown # NoError THEN Leave(r.b)
          ELSE IF Lands(r.b, "destroyOrphans") THEN Leave(StackOverflow(r.b))
          ELSE IF d.thrown # NoError THEN Leave(d)
          ELSE Leave([d EXCEPT !.activeCells = r.found])

\* Builder.initialize that builds the cells and does not go through reload.
initializeBuildOnly(b, elements) == findAndBuild(b, elements).b

\* Builder.initialize, cell.js:37-39.
initialize(b, elements) == reload(b, elements)

\* ------------------------------------------------------------ state machine
DocNodes(d) == {d[i].node : i \in 1..Len(d)}

NodeSeq(d) == [i \in 1..Len(d) |-> d[i].node]

\* Module state of cell.js:12 and cell.js:18, and a page with no cells yet.
Init ==
  /\ availableCells = [n \in CellNames |-> UndefinedCtor]
  /\ activeCells = <<>>
  /\ heap = <<>>
  /\ document = <<>>
  /\ lastCall = [op |-> "load", ctor |-> UndefinedCtor]
  /\ thrown = NoError
  /\ log = <<>>
  /\ passDocument = <<>>
  /\ destroyCalls = <<>>
  /\ staleReloads = {}
  /\ nesting = 0
  /\ cellCall = NoCellCall
  /\ builderReturn = NoArray

\* Number of invocations of op on object c recorded in l.
CountOp(l, op, c) == Cardinality({i \in 1..Len(l) : l[i].op = op /\ l[i].cell = c})

\* destroy invocations on c before this call.
DestroyedBefore(c) == IF c <= Len(destroyCalls) THEN destroyCalls[c] ELSE 0

\* The Builder's state after a call that returned or threw, and the
\* bookkeeping of the hook invocations the call made.
Commit(b) ==
  /\ availableCells' = b.availableCells
  /\ activeCells' = b.activeCells
  /\ heap' = b.heap
  /\ thrown' = b.thrown
  /\ log' = b.log
  /\ nesting' = b.nesting
  /\ destroyCalls' = [c \in 1..Len(b.heap) |->
                        DestroyedBefore(c) + CountOp(b.log, "destroy", c)]
  /\ staleReloads' = staleReloads \cup
        {b.log[i].cell : i \in {k \in 1..Len(b.log) :
            /\ b.log[k].op = "reload"
            /\ \/ DestroyedBefore(b.log[k].cell) > 0
               \/ \E j \in 1..(k - 1) : /\ b.log[j].op = "destroy"
                                        /\ b.log[j].cell = b.log[k].cell}}

Register(c) ==
  /\ Commit(register(Builder, c))
  /\ lastCall' = [op |-> "register", ctor |-> c]
  /\ cellCall' = NoCellCall
  /\ builderReturn' = NoArray
  /\ UNCHANGED <<document, passDocument>>

Pass(op, b) ==
  /\ Commit(b)
  /\ lastCall' = [op |-> op, ctor |-> UndefinedCtor]
  /\ passDocument' = IF b.thrown = NoError THEN NodeSeq(document) ELSE passDocument
  /\ cellCall' = NoCellCall
  /\ builderReturn' = NoArray
  /\ UNCHANGED document

Initialize ==
  /\ Len(heap) + Len(document) <= MaxCells
  /\ Pass("initialize", initialize(Builder, document))

Reload ==
  /\ Len(heap) + Len(document) <= MaxCells
  /\ Pass("reload", reload(Builder, document))

\* The page attaches a node that carries data-cell, at position i; children
\* are the class names of the node's descendants.
AttachNode(n, i, cell, params, children) ==
  /\ n \notin DocNodes(document)
  /\ i \in 1..(Len(document) + 1)
  /\ document' = SubSeq(document, 1, i - 1)
                   \o <<[node |-> n, cell |-> cell, cellParams |-> params,
                         children |-> children]>>
                   \o SubSeq(document, i, Len(document))
  /\ lastCall' = [op |-> "dom", ctor |-> UndefinedCtor]
  /\ thrown' = NoError
  /\ log' = <<>>
  /\ nesting' = 0
  /\ cellCall' = NoCellCall
  /\ builderReturn' = NoArray
  /\ UNCHANGED <<availableCells, activeCells, heap, passDocument, destroyCalls, staleReloads>>

\* The page attaches a node while a pass over the document stays within
\* MaxCells objects.
Attach(n, i, cell, params, children) ==
  /\ Len(heap) + Len(document) + 1 <= MaxCells
  /\ AttachNode(n, i, cell, params, children)

\* The page attaches a node without descendants.
InsertElement(n, i, cell, params) == Attach(n, i, cell, params, {})

\* The page detaches the i-th marker element.
RemoveElement(i) ==
  /\ i \in 1..Len(document)
  /\ document' = SubSeq(document, 1, i - 1) \o SubSeq(document, i + 1, Len(document))
  /\ lastCall' = [op |-> "dom", ctor |-> UndefinedCtor]
  /\ thrown' = NoError
  /\ log' = <<>>
  /\ nesting' = 0
  /\ cellCall' = NoCellCall
  /\ builderReturn' = NoArray
  /\ UNCHANGED <<availableCells, activeCells, heap, passDocument, destroyCalls, staleReloads>>

Next ==
  \/ \E c \in AppConstructors : Register(c)
  \/ Initialize
  \/ Reload
  \/ \E n \in Nodes, i \in 1..MaxNodes, cell \in PageCellNames, params \in ParamTexts :
        InsertElement(n, i, cell, params)
  \/ \E i \in 1..MaxNodes : RemoveElement(i)

Spec == Init /\ [][Next]_vars

\* ------------------------------------------- pages with two cell types
\* The application registers Foo1 and Bar1, and the page may change the
\* data-cell attribute of an attached element.
TypedConstructors == {"Foo1", "Bar1"}
TypedCellNames == {"Foo", "Bar"}

\* The page sets the data-cell attribute of the i-th marker element.
SetDataCell(i, cell) ==
  /\ i \in 1..Len(document)
  /\ document[i].cell # cell
  /\ document' = [document EXCEPT ![i].cell = cell]
  /\ lastCall' = [op |-> "dom", ctor |-> UndefinedCtor]
  /\ thrown' = NoError
  /\ log' = <<>>
  /\ nesting' = 0
  /\ cellCall' = NoCellCall
  /\ builderReturn' = NoArray
  /\ UNCHANGED <<availableCells, activeCells, heap, passDocument, destroyCalls, staleReloads>>

NextTypes ==
  \/ \E c \in TypedConstructors : Register(c)
  \/ Initialize
  \/ Reload
  \/ \E n \in Nodes, i \in 1..MaxNodes, cell \in TypedCellNames,
        params \in {ValidParams, MalformedParams} : InsertElement(n, i, cell, params)
  \/ \E i \in 1..MaxNodes : RemoveElement(i)
  \/ \E i \in 1..MaxNodes, cell \in TypedCellNames : SetDataCell(i, cell)

SpecTypes == Init /\ [][NextTypes]_vars

\* ------------------------------------------- classes whose code throws
HookConstructors == {"Example", "Fragile"}

\* The marker elements of these pages: an Example with and without the
\* descendant its template gives it (part_001:19-21), and a Fragile.
HookElements ==
  {[cell |-> "Example", children |-> {"Example__name"}],
   [cell |-> "Example", children |-> {}],
   [cell |-> "Fragile", children |-> {}]}

\* A pass is started while no object has reached MaxDestroys.
HookPass(op) ==
  /\ Len(heap) + Len(document) <= MaxCells
  /\ \A c \in 1..Len(heap) : destroyCalls[c] < MaxDestroys
  /\ Pass(op, IF op = "initialize" THEN initialize(Builder, document)
               ELSE reload(Builder, document))

InitializeHooks == HookPass("initialize")

ReloadHooks == HookPass("reload")

NextHooks ==
  \/ \E c \in HookConstructors : Register(c)
  \/ InitializeHooks
  \/ ReloadHooks
  \/ \E n \in Nodes, i \in 1..MaxNodes, e \in HookElements :
        Attach(n, i, e.cell, ValidParams, e.children)
  \/ \E i \in 1..MaxNodes : RemoveElement(i)

SpecHooks == Init /\ [][NextHooks]_vars

\* ------------------------------------------- pages that make a pass throw
\* The application registers Foo1 and Example.  Its pages carry Foo elements
\* with a well-formed, a malformed and no configuration, Example elements
\* without the descendant the constructor of Example writes to, and elements
\* whose data-cell is "constructor".  An array in the LiveSet makes every
\* later pass throw after it destroyed the cells in front of the array once
\* more, hence the passes bounded by MaxDestroys.
ErrorConstructors == {"Foo1", "Example"}

ErrorElements ==
  {[cell |-> "Foo", cellParams |-> p, children |-> {}] : p \in ParamTexts}
  \cup {[cell |-> c, cellParams |-> ValidParams, children |-> {}] :
          c \in {"constructor", "Example"}}

NextErrors ==
  \/ \E c \in ErrorConstructors : Register(c)
  \/ InitializeHooks
  \/ ReloadHooks
  \/ \E n \in Nodes, i \in 1..MaxNodes, e \in ErrorElements :
        Attach(n, i, e.cell, e.cellParams, e.children)
  \/ \E i \in 1..MaxNodes : RemoveElement(i)

SpecErrors == Init /\ [][NextErrors]_vars

\* ------------------------------------------- pages with unknown type names
\* The application registers Foo1.  Its pages carry Foo elements with and
\* without a configuration, elements of the type Baz, which no class has,
\* and elements whose data-cell is a property name availableCells inherits.
UnknownCellNames == {"Baz", "constructor", "map"}

UnknownElements ==
  {[cell |-> "Foo", cellParams |-> p] : p \in {ValidParams, AbsentParams}}
  \cup {[cell |-> c, cellParams |-> ValidParams] : c \in UnknownCellNames}

NextUnknown ==
  \/ Register("Foo1")
  \/ InitializeHooks
  \/ ReloadHooks
  \/ \E n \in Nodes, i \in 1..MaxNodes, e \in UnknownElements :
        InsertElement(n, i, e.cell, e.cellParams)
  \/ \E i \in 1..MaxNodes : RemoveElement(i)

SpecUnknown == Init /\ [][NextUnknown]_vars

\* ------------------------------------------- a class whose onDestroy hook
\* calls Builder.reload()
NestedConstructors == {"Nested", "Foo2"}
NestedCellNames == {"Nested", "Foo"}

\* A pass of this application; the engine's stack runs out at landing.
NestedPass(op, landing) ==
  /\ Len(heap) + Len(document) <= MaxCells
  /\ \A c \in 1..Len(heap) : destroyCalls[c] < MaxDestroys
  /\ LET b == [Builder EXCEPT !.landing = landing]
     IN Pass(op, IF op = "initialize" THEN initialize(b, document)
                  ELSE reload(b, document))

InitializeNested == \E landing \in Landings : NestedPass("initialize", landing)

ReloadNested == \E landing \in Landings : NestedPass("reload", landing)

NextNested ==
  \/ \E c \in NestedConstructors : Register(c)
  \/ InitializeNested
  \/ ReloadNested
  \/ \E n \in Nodes, i \in 1..MaxNodes, cell \in NestedCellNames :
        InsertElement(n, i, cell, ValidParams)
  \/ \E i \in 1..MaxNodes : RemoveElement(i)

SpecNested == Init /\ [][NextNested]_vars

\* ------------------------------------------- pages that reorder their cells
\* The application registers Foo1; its pages carry Foo elements with
\* well-formed configurations, and move them between passes.  Every pass
\* builds one object per element, so two passes over two elements build four.
OrderConstructors == {"Foo1"}

InitializeOrdered ==
  /\ Len(heap) + Len(document) <= MaxOrderCells
  /\ Pass("initialize", initialize(Builder, document))

ReloadOrdered ==
  /\ Len(heap) + Len(document) <= MaxOrderCells
  /\ Pass("reload", reload(Builder, document))

InsertOrdered(n, i) ==
  /\ Len(heap) + Len(document) + 1 <= MaxOrderCells
  /\ AttachNode(n, i, "Foo", ValidParams, {})

\* The page moves the i-th marker element to position j.
MoveElement(i, j) ==
  /\ i \in 1..Len(document)
  /\ j \in 1..Len(document)
  /\ i # j
  /\ LET rest == SubSeq(document, 1, i - 1) \o SubSeq(document, i + 1, Len(document))
     IN document' = SubSeq(rest, 1, j - 1) \o <<document[i]>> \o SubSeq(rest, j, Len(rest))
  /\ lastCall' = [op |-> "dom", ctor |-> UndefinedCtor]
  /\ thrown' = NoError
  /\ log' = <<>>
  /\ nesting' = 0
  /\ cellCall' = NoCellCall
  /\ builderReturn' = NoArray
  /\ UNCHANGED <<availableCells, activeCells, heap, passDocument, destroyCalls, staleReloads>>

NextOrder ==
  \/ \E c \in OrderConstructors : Register(c)
  \/ InitializeOrdered
  \/ ReloadOrdered
  \/ \E n \in Nodes, i \in 1..MaxNodes : InsertOrdered(n, i)
  \/ \E i \in 1..MaxNodes : RemoveElement(i)
  \/ \E i \in 1..MaxNodes, j \in 1..MaxNodes : MoveElement(i, j)

SpecOrder == Init /\ [][NextOrder]_vars

\* ------------------------------------------- the Builder's other methods
\* Builder is an exported object: the application can call findAndBuild and
\* destroyOrphans itself, and can call destroy on a cell the Builder manages.

\* Builder.findAndBuild() called by the application.
FindAndBuild ==
  /\ Len(heap) + Len(document) <= MaxCells
  /\ LET r == findAndBuild(Builder, document)
     IN /\ Commit(r.b)
        /\ builderReturn' = IF r.b.thrown = NoError
                               THEN [defined |-> TRUE, cells |-> r.found]
                               ELSE NoArray
  /\ lastCall' = [op |-> "findAndBuild", ctor |-> UndefinedCtor]
  /\ cellCall' = NoCellCall
  /\ UNCHANGED <<document, passDocument>>

\* The arrays the application hands to destroyOrphans: no cell, or the
\* active ones.
FoundArrays == {<<>>, activeCells}

\* Builder.destroyOrphans(found) called by the application.
DestroyOrphans(found) ==
  /\ \A i \in 1..Len(activeCells) : destroyCalls[activeCells[i]] < MaxDestroys
  /\ LET r == destroyOrphans(Builder, found)
     IN /\ Commit(r.b)
        /\ builderReturn' = IF r.b.thrown = NoError
                               THEN [defined |-> TRUE, cells |-> r.kept]
                               ELSE NoArray
  /\ lastCall' = [op |-> "destroyOrphans", ctor |-> UndefinedCtor]
  /\ cellCall' = NoCellCall
  /\ UNCHANGED <<document, passDocument>>

\* ------------------------------------------- the Cell class used directly
\* The application builds cells with `new` and calls their methods itself
\* (Cell is the default export of cell.js).

\* The state after a call of a Cell method or constructor.
CellStep(b, call) ==
  /\ Commit(b)
  /\ cellCall' = call
  /\ lastCall' = [op |-> "cell", ctor |-> UndefinedCtor]
  /\ builderReturn' = NoArray
  /\ UNCHANGED <<document, passDocument>>

\* new ctor(element) for an element of the page.
NewCell(ctor, n, params) ==
  /\ Len(heap) < MaxDirectCells
  /\ LET el == [node |-> n, cell |-> CtorName(ctor), cellParams |-> params,
                children |-> {}]
         r == New(Builder, ctor, el)
     IN CellStep(r.b, [NoCellCall EXCEPT !.method = "new", !.cell = r.cell, !.arg = n])

\* cell.destroy(element); arg is Undefined for cell.destroy().
CallDestroy(id, arg) ==
  /\ id \in 1..Len(heap)
  /\ destroyCalls[id] < MaxDestroys
  /\ LET r == CellDestroy(Builder, id, arg)
     IN CellStep(r.b, [NoCellCall EXCEPT !.method = "destroy", !.cell = id,
                                         !.arg = arg, !.returned = r.returned])

\* cell.reload(element).
CallReload(id, arg) ==
  /\ id \in 1..Len(heap)
  /\ LET r == CellReload(Builder, id, arg)
     IN CellStep(r.b, [NoCellCall EXCEPT !.method = "reload", !.cell = id,
                                         !.arg = arg, !.returned = r.returned])

\* cell.className(child).
CallClassName(id, child) ==
  /\ id \in 1..Len(heap)
  /\ CellStep(Builder, [NoCellCall EXCEPT !.method = "className", !.cell = id,
                                          !.value = child,
                                          !.selector = className(heap[id], child)])

\* cell.query(selector) and cell.queryAll(selector); a call that throws
\* looks nothing up.
CallQuery(method, id, selector) ==
  /\ id \in 1..Len(heap)
  /\ LET lookup == IF method = "query" THEN query(heap[id], selector)
                   ELSE queryAll(heap[id], selector)
         call == [NoCellCall EXCEPT !.method = method, !.cell = id, !.value = selector]
     IN IF lookup.thrown # NoError
          THEN CellStep([Builder EXCEPT !.thrown = lookup.thrown], call)
          ELSE CellStep(Builder, [call EXCEPT !.root = lookup.root,
                                             !.selector = lookup.selector])

\* The classes the application instantiates itself; the onDestroy hook of
\* Fragile throws.
NewConstructors == AppConstructors \cup {"Fragile"}

NextCell ==
  \/ \E ctor \in NewConstructors, n \in Nodes, params \in ParamTexts : NewCell(ctor, n, params)
  \/ \E id \in 1..MaxDirectCells, arg \in Nodes \cup {Undefined} : CallDestroy(id, arg)
  \/ \E id \in 1..MaxDirectCells, arg \in Nodes \cup {Undefined} : CallReload(id, arg)
  \/ \E id \in 1..MaxDirectCells, child \in Fragments : CallClassName(id, child)
  \/ \E method \in {"query", "queryAll"}, id \in 1..MaxDirectCells, selector \in Fragments :
        CallQuery(method, id, selector)

SpecCell == Init /\ [][NextCell]_vars

\* ------------------------------------------- every exported method
\* An application that besides register, initialize and reload calls
\* findAndBuild, destroyOrphans and the destroy of managed cells.  It
\* registers Foo1, and its pages carry Foo elements with well-formed
\* configurations; a call made before the registration throws.
DirectConstructors == {"Foo1"}
DirectCellNames == {"Foo"}

\* cell.destroy() called by the application on the i-th active cell.
DestroyActive(i) ==
  /\ i \in 1..Len(activeCells)
  /\ CallDestroy(activeCells[i], Undefined)

NextDirect ==
  \/ \E c \in DirectConstructors : Register(c)
  \/ Initialize
  \/ Reload
  \/ FindAndBuild
  \/ \E found \in FoundArrays : DestroyOrphans(found)
  \/ \E i \in 1..MaxCells : DestroyActive(i)
  \/ \E n \in Nodes, i \in 1..MaxNodes, cell \in DirectCellNames :
        InsertElement(n, i, cell, ValidParams)
  \/ \E i \in 1..MaxNodes : RemoveElement(i)

SpecDirect == Init /\ [][NextDirect]_vars

\* ------------------------------------------------------------ properties
PassOps == {"reload", "initialize"}

\* The most recent step was a pass that returned.
PassOk == lastCall.op \in PassOps /\ thrown = NoError

\* The most recent step was a pass that threw.
PassFailed == lastCall.op \in PassOps /\ thrown # NoError

\* This step is a call of Builder.reload or Builder.initialize.
PassStep == lastCall'.op \in PassOps

Range(s) == {s[i] : i \in 1..Len(s)}

\* Positions of cells whose object is bound to node n.
BoundTo(cells, h, n) == {i \in 1..Len(cells) : h[cells[i]].element = n}

\* Objects on which l records an invocation of op.
Invoked(l, op) == {l[i].cell : i \in {k \in 1..Len(l) : l[k].op = op}}

\* The type name of the i-th marker element has no registered class: no
\* class was stored under it by Builder.register.
Unregistered(i) == availableCells[document[i].cell] = UndefinedCtor

\* The callback of findAndBuild throws on the i-th marker element: its type
\* name resolves to nothing or to a function `new` cannot call, or it
\* resolves to a class and the configuration does not parse, or the class is
\* Example and the element lacks the descendant its constructor writes to.
Throws(i) ==
  LET c == Lookup(availableCells, document[i].cell)
  IN \/ c \in {UndefinedCtor, ArrayMap}
     \/ c \in Constructors /\ JSONParse(document[i].cellParams).thrown # NoError
     \/ c = "Example" /\ ~Matches(document[i], ".Example__name")

\* The configuration attribute of the i-th marker element does not parse.
BadParams(i) == JSONParse(document[i].cellParams).thrown # NoError

\* The error of Builder.findAndBuild for a type name without a class.
NotFound(cellName) ==
  [name |-> "Error", message |-> "Cell with name " \o cellName \o " not found"]

\* C1 (as claimed): in a successful pass, an element that was in the document
\* at the previous successful pass and is in the document now keeps the very
\* instance that was bound to it in the previous LiveSet, and no instance is
\* constructed for it.
C1_IdentityPreserved ==
  [][(PassStep /\ thrown' = NoError) =>
       \A n \in DocNodes(document) \cap Range(passDocument) :
         \A i \in BoundTo(activeCells, heap, n) :
           /\ \E j \in 1..Len(activeCells') :
                /\ activeCells'[j] = activeCells[i]
                /\ heap'[activeCells'[j]].element = n
           /\ \A k \in 1..Len(log') :
                ~(log'[k].op = "construct" /\ log'[k].arg = n)]_vars

C3_Idempotent ==
  [][(PassOk /\ PassStep /\ thrown' = NoError) =>
       /\ activeCells' = activeCells
       /\ Invoked(log', "construct") = {}
       /\ Invoked(log', "destroy") = {}
       /\ \A i \in 1..Len(activeCells) :
            CountOp(log', "reload", activeCells[i]) = 1]_vars

\* C4 (as claimed): in a successful pass an instance of the previous LiveSet
\* has destroy invoked iff its element is absent from the document; an orphan
\* is destroyed exactly once, with no argument, and leaves the LiveSet.
C4_OrphansOnly ==
  [][(PassStep /\ thrown' = NoError) =>
       \A i \in 1..Len(activeCells) :
         LET c == activeCells[i]
             orphan == heap[c].element \notin DocNodes(document)
         IN /\ (c \in Invoked(log', "destroy")) <=> orphan
            /\ orphan =>
                 /\ CountOp(log', "destroy", c) = 1
                 /\ \A k \in 1..Len(log') :
                      (log'[k].op = "destroy" /\ log'[k].cell = c)
                        => log'[k].arg = Undefined
                 /\ c \notin Range(activeCells')]_vars

\* C5 (as claimed): no two objects that were constructed and not destroyed
\* hold a reference to the same element.
C5_OneLivePerElement ==
  \A c, d \in 1..Len(heap) :
    (c # d /\ destroyCalls[c] = 0 /\ destroyCalls[d] = 0 /\ heap[c].element # Null)
      => heap[c].element # heap[d].element

\* C6 (as claimed): a pass over a document with a marker element whose type
\* name was never registered fails with the error naming such an element's
\* type, and leaves the LiveSet as it was.
C6_UnknownTypeAlways ==
  [][(PassStep /\ \E i \in 1..Len(document) : Unregistered(i)) =>
       /\ \E i \in 1..Len(document) :
            Unregistered(i) /\ thrown' = NotFound(document[i].cell)
       /\ activeCells' = activeCells]_vars

\* C7 (as claimed): a pass that fails with an unknown-type or config-parse
\* error has run no constructor to completion, invoked no reload and no
\* destroy, and left the LiveSet as it was.
C7_AllOrNothing ==
  [][(PassStep /\ thrown'.name \in {"Error", "SyntaxError"}) =>
       /\ log' = <<>>
       /\ activeCells' = activeCells]_vars

\* C8 (as claimed): a pass over a document with an element of a registered
\* type that has no instance yet and whose configuration is missing or
\* malformed fails with that element's parse error, and leaves the LiveSet as
\* it was.
C8_ParseErrorAlways ==
  [][PassStep =>
       \A i \in 1..Len(document) :
         (/\ ~Unregistered(i)
          /\ BadParams(i)
          /\ BoundTo(activeCells, heap, document[i].node) = {})
           => /\ thrown' = JSONParse(document[i].cellParams).thrown
              /\ activeCells' = activeCells]_vars

\* C8 (amended): the same, when the pass throws on no marker element that
\* precedes the element in document order; and a pass that throws on an
\* earlier element fails all the same and leaves the LiveSet as it was.
C8_ParseErrorFirst ==
  [][PassStep =>
       \A i \in 1..Len(document) :
         (/\ ~Unregistered(i)
          /\ BadParams(i)
          /\ BoundTo(activeCells, heap, document[i].node) = {})
           => /\ (\A j \in 1..(i - 1) : ~Throws(j))
                   => thrown' = JSONParse(document[i].cellParams).thrown
              /\ thrown' # NoError
              /\ activeCells' = activeCells]_vars

\* C8 witness: a pass over a non-empty LiveSet got past a first element,
\* whose type name was never registered and resolves to Array, and failed on
\* the malformed configuration of a second, new one.
C8_Witness ==
  /\ PassFailed
  /\ thrown = [name |-> "SyntaxError", message |-> MalformedParams]
  /\ Len(document) = 2
  /\ document[1].cell = "constructor"
  /\ ~Unregistered(2)
  /\ document[2].cellParams = MalformedParams
  /\ BoundTo(activeCells, heap, document[2].node) = {}
  /\ Invoked(log, "construct") # {}
  /\ activeCells # <<>>

C10_FirstWriteWins ==
  [][/\ \A n \in CellNames :
          availableCells[n] # UndefinedCtor => availableCells'[n] = availableCells[n]
     /\ lastCall'.op = "register" =>
          /\ availableCells[CtorName(lastCall'.ctor)] # UndefinedCtor
               => availableCells' = availableCells
          /\ availableCells[CtorName(lastCall'.ctor)] = UndefinedCtor
               => availableCells' =
                    [availableCells EXCEPT ![CtorName(lastCall'.ctor)] = lastCall'.ctor]
          /\ activeCells' = activeCells
          /\ heap' = heap
          /\ thrown' = NoError
     /\ PassStep =>
          \A k \in 1..Len(log') :
            log'[k].op = "construct" =>
              \E i \in 1..Len(document) :
                /\ document[i].node = log'[k].arg
                /\ heap'[log'[k].cell].ctor = availableCells[document[i].cell]]_vars

\* C10 witness: Foo2 was registered after Foo1, over a LiveSet of Foo1 objects.
C10_Witness ==
  /\ lastCall = [op |-> "register", ctor |-> "Foo2"]
  /\ availableCells["Foo"] = "Foo1"
  /\ activeCells # <<>>
  /\ \A i \in 1..Len(activeCells) : heap[activeCells[i]].ctor = "Foo1"

\* C11: initialize() called while the LiveSet is empty ends as reload() would;
\* when it returns, the LiveSet holds one newly constructed instance per
\* marker element, in order; it invokes no reload and no destroy.
C11_InitializeAtStartup ==
  [][(lastCall'.op = "initialize" /\ activeCells = <<>>) =>
       /\ activeCells' = reload(Builder, document).activeCells
       /\ heap' = reload(Builder, document).heap
       /\ thrown' = reload(Builder, document).thrown
       /\ Invoked(log', "reload") = {}
       /\ Invoked(log', "destroy") = {}
       /\ thrown' = NoError =>
            /\ Len(activeCells') = Len(document)
            /\ \A i \in 1..Len(document) :
                 /\ activeCells'[i] > Len(heap)
                 /\ activeCells'[i] \in Invoked(log', "construct")
                 /\ heap'[activeCells'[i]].element = document[i].node]_vars

\* C11 witness: the first pass of the page was initialize(), over two elements.
C11_Witness ==
  /\ lastCall.op = "initialize"
  /\ thrown = NoError
  /\ Len(document) = 2
  /\ Len(heap) = 2
  /\ activeCells = <<1, 2>>

CellCallStep(method) == lastCall'.op = "cell" /\ cellCall'.method = method

\* Positions of l with an event op on object c.
EventsOf(l, op, c) == {k \in 1..Len(l) : l[k].op = op /\ l[k].cell = c}

\* C12: cell.reload(element) invokes onReload, if the class defines it,
\* exactly once and with that element, returns that element, throws nothing
\* and changes no object: element, name and params stay, and the instance is
\* no more destroyed than it was.
C12_ReloadIsIdentity ==
  [][CellCallStep("reload") =>
       LET id == cellCall'.cell
           hooks == EventsOf(log', "onReload", id)
       IN /\ cellCall'.returned = cellCall'.arg
          /\ thrown' = NoError
          /\ heap' = heap
          /\ destroyCalls' = destroyCalls
          /\ IF DefinesOnReload(heap[id].ctor)
               THEN /\ Cardinality(hooks) = 1
                    /\ \A k \in hooks : log'[k].arg = cellCall'.arg
               ELSE hooks = {}]_vars

\* C12 witness: reload was called on a live instance of a class with an
\* onReload hook, with an element other than its own.
C12_Witness ==
  /\ cellCall.method = "reload"
  /\ cellCall.arg \in Nodes
  /\ heap[cellCall.cell].element \in Nodes
  /\ heap[cellCall.cell].element # cellCall.arg
  /\ EventsOf(log, "onReload", cellCall.cell) # {}

\* C13 (as claimed): query(f) and queryAll(f) on a live instance search the
\* subtree of the instance's own element for the selector className(f), which
\* for a fragment f is '.<typeName>__<f>'.
C13_ScopedAndNamespaced ==
  (cellCall.method \in {"query", "queryAll"} /\ thrown = NoError) =>
    LET this == heap[cellCall.cell]
    IN /\ cellCall.root = this.element
       /\ cellCall.selector = className(this, cellCall.value)
       /\ cellCall.value # "" =>
            cellCall.selector = "." \o this.name \o "__" \o cellCall.value

\* C15: cell.destroy(element) leaves the instance without element, invokes
\* onDestroy, if the class defines it, once, after the release and with the
\* argument of destroy, and when the hook returns it returns that argument
\* (a throw of the hook is the outcome of the call, which then yields no
\* value); an instance that had destroy invoked on it never holds an element
\* again, also when its hook threw.
C15_DestroyOrdering ==
  [][/\ CellCallStep("destroy") =>
          LET id == cellCall'.cell
              hooks == EventsOf(log', "onDestroy", id)
          IN /\ thrown' = NoError => cellCall'.returned = cellCall'.arg
             /\ thrown' # NoError =>
                  /\ cellCall'.returned = Undefined
                  /\ thrown' = [name |-> "Error", message |-> "onDestroy failed"]
                  /\ heap[id].ctor = "Fragile"
             /\ heap'[id].element = Null
             /\ destroyCalls'[id] = destroyCalls[id] + 1
             /\ IF DefinesOnDestroy(heap[id].ctor)
                  THEN /\ Cardinality(hooks) = 1
                       /\ \A k \in hooks :
                            /\ log'[k].arg = cellCall'.arg
                            /\ log'[k].element = Null
                            /\ \E j \in EventsOf(log', "destroy", id) : j < k
                  ELSE hooks = {}
     /\ \A c \in 1..Len(heap) :
          destroyCalls[c] > 0 => heap'[c].element = Null]_vars

\* C15 witness: destroy was called with an element on a live instance of a
\* class with an onDestroy hook.
C15_Witness ==
  /\ cellCall.method = "destroy"
  /\ cellCall.arg \in Nodes
  /\ \E k \in EventsOf(log, "onDestroy", cellCall.cell) : log[k].arg = cellCall.arg
  /\ \E k \in EventsOf(log, "destroy", cellCall.cell) : log[k].was \in Nodes

\* The error of the onDestroy hook of Fragile.
FragileError == [name |-> "Error", message |-> "onDestroy failed"]

\* The i-th marker element is an Example without the descendant its
\* constructor writes to.
ExampleFails(i) ==
  document[i].cell = "Example" /\ ~Matches(document[i], ".Example__name")

\* C14 (as claimed): a call of Builder.reload() made by a hook while a pass
\* is in progress runs no pass inside the running one, and the pass ends
\* without exhausting the call stack.
C14_NoNestedPass ==
  lastCall.op \in PassOps => (nesting <= 1 /\ thrown.name # "RangeError")

\* C17: a throw of a constructor or of a destroy hook during a pass reaches
\* the caller of reload()/initialize(), and a pass that throws leaves
\* Builder.activeCells as it was.
C17_HookErrorsPropagate ==
  [][PassStep =>
       /\ (\E k \in 1..Len(log') :
             log'[k].op = "onDestroy" /\ heap[log'[k].cell].ctor = "Fragile")
            => thrown' = FragileError
       /\ (\E i \in 1..Len(document) : ExampleFails(i)) => thrown' # NoError
       /\ thrown' # NoError => activeCells' = activeCells]_vars

\* C17 witness: a pass built new objects and then failed in the destroy hook
\* of an instance of the LiveSet.
C17_Witness ==
  /\ PassFailed
  /\ thrown = FragileError
  /\ Invoked(log, "construct") # {}
  /\ Invoked(log, "onDestroy") \cap Range(activeCells) # {}

====
